---- MODULE Spec2Model ----
(***************************************************************************)
(* The BAREOS director job queue (src/core/src/dird/jobq.cc): the three    *)
(* lists waiting/ready/running under the queue mutex, the scheduled-start  *)
(* waiter, the worker pool, admission against the concurrency counters,    *)
(* and the reschedule engine.                                              *)
(*                                                                         *)
(* Pointers.  A JobControlRecord* is a job number in Jobs, NullPtr, or     *)
(* BadPtr (any pointer that is not a live JCR).  Reads that the C++        *)
(* standard leaves undefined are nondeterministic choices:                 *)
(*   - the uninitialised `item` of JobqRemove: any pointer;                *)
(*   - `*je` after list.remove erased the node je points to: the          *)
(*     stale value, or BadPtr;                                             *)
(*   - `*it` for it == list.end(): NullPtr or BadPtr;                      *)
(*   - dereferencing NullPtr/BadPtr: the process dies (crashed).           *)
(* An erased node keeps one content, stale or garbage, for all the reads   *)
(* of one worker.  A BadPtr is fatal at its first dereference (by the      *)
(* thread that read it, or by the next worker that takes it from a list);  *)
(* the process is taken to die at the read.                                *)
(***************************************************************************)
EXTENDS Integers, Sequences, FiniteSets, TLC

\* ---------------------------------------------------------------- bounds
NumJobs == 3
MaxWorkers == 2
NumScenarios == 3
MaxFaults == 1
MaxReschedule == 2

Jobs == 1..NumJobs
Workers == 1..MaxWorkers
Scenarios == 1..NumScenarios
MigrationScenario == NumScenarios + 1

NullPtr == 0
BadPtr == -1

\* jq->mutex is free, held by worker w (qmutex = w), or held by a thread that
\* returned without unlocking it.
MutexFree == 0
MutexLeaked == -1

VARIABLES
  cfg,          \* which configuration (job definitions, clients, storages) is loaded
  valid,        \* jq->valid == JOBQ_VALID
  quit,         \* jq->quit
  num_workers,  \* jq->num_workers
  qmutex,       \* owner of jq->mutex: MutexFree, a worker, or MutexLeaked
  waiting,      \* jq->waiting_jobs
  ready,        \* jq->ready_jobs
  running,      \* jq->running_jobs
  ncj,          \* NumConcurrentJobs of every client / job / storage resource
  nrj,          \* NumConcurrentReadJobs of every storage resource
  rmutex,       \* the mutex of the concurrency registry is held
  jcr,          \* the JobControlRecords
  wk,           \* the jobq_server threads
  waiter,       \* the jobs a sched_wait thread is sleeping for
  cancelling,   \* the jobs whose canceller has yet to call JobqRemove
  dpc,          \* the thread inside JobqDestroy
  faults,       \* failures of pthread_create, malloc and the condition waits so far
  crashed,      \* the process died on an invalid pointer
  probe         \* a finished job handed to the test of RescheduleJob alone

vars == <<cfg, valid, quit, num_workers, qmutex, waiting, ready, running,
          ncj, nrj, rmutex, jcr, wk, waiter, cancelling, dpc, faults, crashed,
          probe>>

\* ------------------------------------------------------- configurations
\* The resources of the director configuration.  A job number j submitted
\* from outside uses row j of the loaded configuration; a clone made by
\* RescheduleJob uses the row of the job it was cloned from.
Clients == {"c1", "c2"}
JobDefs == {"d1", "d2"}
Stores == {"s1", "s2"}
Resources == Clients \cup JobDefs \cup Stores
NoRes == "none"

\* cfg 1: two priorities, job definition d1 forbids and d2 allows mixed
\*        priorities, ample resources.
\* cfg 2: one priority; client c1 and storage s1 admit one job at a time,
\*        everything else two.  Row 3 reads from and writes to s2.
\* cfg 3: one priority, every job writes to storage s1, which admits two
\*        jobs; rescheduling on error/incomplete: d1 once and at once, d2
\*        twice and after an interval.
\* The migration configuration has no backup job: row 1 is a Migrate control
\* job, row 2 a Copy job working for a control job (MigrateJobId set), row 3
\* a Consolidate control job; all read from s2 and write to s1, and job
\* definition d1 admits one job at a time.
RowPriority(c, r) == IF c = 1 /\ r # 2 THEN 2 ELSE 1
RowJobDef(c, r) == IF c = 1 THEN (IF r = 1 THEN "d1" ELSE "d2")
                   ELSE IF c = 2 THEN "d1"
                   ELSE IF r % 2 = 1 THEN "d1" ELSE "d2"
RowClient(c, r) == IF c = 2 THEN (IF r <= 2 THEN "c1" ELSE "c2") ELSE "c1"
RowWStore(c, r) == IF c = 2 THEN (IF r = 1 THEN "s1" ELSE "s2") ELSE "s1"
RowRStore(c, r) == IF (c = 2 /\ r = 3) \/ c = MigrationScenario THEN "s2"
                   ELSE NoRes
RowJobType(c, r) == IF c # MigrationScenario THEN "Backup"
                    ELSE IF r = 1 THEN "Migrate"
                    ELSE IF r = 2 THEN "Copy" ELSE "Consolidate"
RowJobLevel(c, r) == "Full"
RowMigrateJobId(c, r) == IF c = MigrationScenario /\ r = 2 THEN 1 ELSE 0
MaxConcurrentJobsOf(c, res) ==
  IF c = 2 THEN (IF res \in {"c1", "s1"} THEN 1 ELSE 2)
  ELSE IF c = 3 /\ res = "s1" THEN 2
  ELSE IF c = MigrationScenario /\ res = "d1" THEN 1
  ELSE NumJobs
allow_mixed_priority_of(c, d) == c = 1 /\ d = "d2"
RescheduleTimesOf(c, d) == IF c = 3 THEN (IF d = "d1" THEN 1 ELSE 2) ELSE 0
RescheduleOnErrorOf(c, d) == c = 3
RescheduleIncompleteJobsOf(c, d) == c = 3 /\ d = "d2"
RescheduleIntervalOf(c, d) == IF c = 3 /\ d = "d2" THEN 1 ELSE 0

\* jq->max_workers, the second argument of JobqInit: configuration 2 runs
\* one worker, the others as many as the model holds.
max_workers_of(c) == IF c = 2 THEN 1 ELSE MaxWorkers
max_workers == max_workers_of(cfg)

\* ------------------------------------------------------------ JCR fields
\* f is the table of JobControlRecords.
JobPriority(f, j) == RowPriority(cfg, f[j].row)
JobDefOf(f, j) == RowJobDef(cfg, f[j].row)
ClientOf(f, j) == RowClient(cfg, f[j].row)
WStoreOf(f, j) == RowWStore(cfg, f[j].row)
RStoreOf(f, j) == RowRStore(cfg, f[j].row)
JobTypeOf(f, j) == RowJobType(cfg, f[j].row)
JobLevelOf(f, j) == RowJobLevel(cfg, f[j].row)
MigrateJobId(f, j) == RowMigrateJobId(cfg, f[j].row)
MaxConcurrentJobs(res) == MaxConcurrentJobsOf(cfg, res)
allow_mixed_priority(f, j) == allow_mixed_priority_of(cfg, JobDefOf(f, j))
RescheduleTimes(f, j) == RescheduleTimesOf(cfg, JobDefOf(f, j))
RescheduleOnError(f, j) == RescheduleOnErrorOf(cfg, JobDefOf(f, j))
RescheduleIncompleteJobs(f, j) == RescheduleIncompleteJobsOf(cfg, JobDefOf(f, j))
RescheduleInterval(f, j) == RescheduleIntervalOf(cfg, JobDefOf(f, j))

\* alloc: "unused" (no such JCR yet), "live", "stale" (its memory was handed
\* to free() while references remain), "freed" (FreeJcr dropped the last
\* reference).
NoJcr == [alloc |-> "unused", row |-> 0, UseCount |-> 0, JobStatus |-> "None",
          acquired |-> FALSE, IgnoreClient |-> FALSE, IgnoreStorage |-> FALSE,
          reschedule_count |-> 0, JobBytes |-> 0, due |-> TRUE]

\* A pointer the program can dereference without dying.
Live(f, p) == p \in Jobs /\ f[p].alloc \in {"live", "stale"}

\* JobCanceled(jcr) and jcr->setJobStatus(): a cancelled job stays cancelled
\* whatever wait status is set afterwards.
JobCanceled(f, j) == f[j].JobStatus = "Canceled"
setJobStatus(f, j, st) ==
  IF f[j].JobStatus = "Canceled" THEN f ELSE [f EXCEPT ![j].JobStatus = st]

\* FreeJcr(jcr): drop one reference; the last one destroys the JCR.
FreeJcr(f, j) ==
  IF f[j].UseCount <= 1 THEN [f EXCEPT ![j] = [NoJcr EXCEPT !.alloc = "freed"]]
  ELSE [f EXCEPT ![j].UseCount = @ - 1]

\* std::list<T>::remove(value): erases every element equal to value.
RemoveAll(q, v) == SelectSeq(q, LAMBDA x : x # v)

\* ------------------------------------------------- concurrency registry
\* c is the registry: the counter tables n (NumConcurrentJobs) and r
\* (NumConcurrentReadJobs) and m, whether the registry mutex is held.
P_mutex(c) == [c EXCEPT !.m = TRUE]
V_mutex(c) == [c EXCEPT !.m = FALSE]

\* IncClientConcurrency without the test against MaxConcurrentJobs.
IncClientConcurrency_NoLimit(c, f, j) ==
  IF ClientOf(f, j) = NoRes \/ f[j].IgnoreClient THEN [ok |-> TRUE, c |-> c]
  ELSE [ok |-> TRUE, c |-> [c EXCEPT !.n[ClientOf(f, j)] = @ + 1]]

IncClientConcurrency(c, f, j) ==
  IF ClientOf(f, j) = NoRes \/ f[j].IgnoreClient THEN [ok |-> TRUE, c |-> c]
  ELSE LET c1 == P_mutex(c) IN
       IF c1.n[ClientOf(f, j)] < MaxConcurrentJobs(ClientOf(f, j))
       THEN [ok |-> TRUE,
             c |-> V_mutex([c1 EXCEPT !.n[ClientOf(f, j)] = @ + 1])]
       ELSE [ok |-> FALSE, c |-> V_mutex(c1)]

DecClientConcurrency(c, f, j) ==
  IF f[j].IgnoreClient THEN c
  ELSE LET c1 == P_mutex(c) IN
       IF ClientOf(f, j) # NoRes
       THEN V_mutex([c1 EXCEPT !.n[ClientOf(f, j)] = @ - 1])
       ELSE V_mutex(c1)

IncJobConcurrency(c, f, j) ==
  LET c1 == P_mutex(c) IN
  IF c1.n[JobDefOf(f, j)] < MaxConcurrentJobs(JobDefOf(f, j))
  THEN [ok |-> TRUE, c |-> V_mutex([c1 EXCEPT !.n[JobDefOf(f, j)] = @ + 1])]
  ELSE [ok |-> FALSE, c |-> V_mutex(c1)]

DecJobConcurrency(c, f, j) ==
  V_mutex([P_mutex(c) EXCEPT !.n[JobDefOf(f, j)] = @ - 1])

IncReadStore(c, f, j) ==
  IF f[j].IgnoreStorage THEN [ok |-> TRUE, c |-> c]
  ELSE LET c1 == P_mutex(c) IN
       IF c1.n[RStoreOf(f, j)] < MaxConcurrentJobs(RStoreOf(f, j))
       THEN [ok |-> TRUE,
             c |-> V_mutex([c1 EXCEPT !.r[RStoreOf(f, j)] = @ + 1,
                                      !.n[RStoreOf(f, j)] = @ + 1])]
       ELSE [ok |-> FALSE, c |-> V_mutex(c1)]

DecReadStore(c, f, j) ==
  IF RStoreOf(f, j) # NoRes /\ ~f[j].IgnoreStorage
  THEN V_mutex([P_mutex(c) EXCEPT !.r[RStoreOf(f, j)] = @ - 1,
                                  !.n[RStoreOf(f, j)] = @ - 1])
  ELSE c

IncWriteStore(c, f, j) ==
  IF f[j].IgnoreStorage THEN [ok |-> TRUE, c |-> c]
  ELSE LET c1 == P_mutex(c) IN
       IF c1.n[WStoreOf(f, j)] < MaxConcurrentJobs(WStoreOf(f, j))
       THEN [ok |-> TRUE,
             c |-> V_mutex([c1 EXCEPT !.n[WStoreOf(f, j)] = @ + 1])]
       ELSE [ok |-> FALSE, c |-> V_mutex(c1)]

DecWriteStore(c, f, j) ==
  IF WStoreOf(f, j) # NoRes /\ ~f[j].IgnoreStorage
  THEN V_mutex([P_mutex(c) EXCEPT !.n[WStoreOf(f, j)] = @ - 1])
  ELSE c

\* A job-type switch that exempts from the client counters only.
IgnoreFlags_ClientOnly(f, j) ==
  IF JobTypeOf(f, j) \in {"Migrate", "Copy", "Consolidate"}
  THEN [f EXCEPT ![j].acquired = FALSE, ![j].IgnoreClient = TRUE]
  ELSE [f EXCEPT ![j].acquired = FALSE]

\* The job-type switch at the head of AcquireResources.
IgnoreFlags(f, j) ==
  IF JobTypeOf(f, j) \in {"Migrate", "Copy", "Consolidate"}
  THEN [f EXCEPT ![j].acquired = FALSE, ![j].IgnoreClient = TRUE,
                 ![j].IgnoreStorage = (@ \/ MigrateJobId(f, j) = 0)]
  ELSE [f EXCEPT ![j].acquired = FALSE]

\* An AcquireResources that keeps the permits it took when a later one is
\* refused.
AcquireResources_NoBackout(c, f0, j) ==
  LET f  == IgnoreFlags(f0, j)
      rs == IF RStoreOf(f, j) # NoRes THEN IncReadStore(c, f, j)
                                      ELSE [ok |-> TRUE, c |-> c]
      ws == IF WStoreOf(f, j) # NoRes THEN IncWriteStore(rs.c, f, j)
                                      ELSE [ok |-> TRUE, c |-> rs.c]
      cl == IncClientConcurrency(ws.c, f, j)
      jb == IncJobConcurrency(cl.c, f, j)
  IN  IF ~rs.ok
        THEN [ok |-> FALSE, c |-> rs.c, f |-> setJobStatus(f, j, "WaitStoreRes")]
      ELSE IF ~ws.ok
        THEN [ok |-> FALSE, c |-> ws.c, f |-> setJobStatus(f, j, "WaitStoreRes")]
      ELSE IF ~cl.ok
        THEN [ok |-> FALSE, c |-> cl.c, f |-> setJobStatus(f, j, "WaitClientRes")]
      ELSE IF ~jb.ok
        THEN [ok |-> FALSE, c |-> jb.c, f |-> setJobStatus(f, j, "WaitJobRes")]
      ELSE [ok |-> TRUE, c |-> jb.c, f |-> [f EXCEPT ![j].acquired = TRUE]]

\* An AcquireResources that reports every refusal as WaitJobRes.
AcquireResources_OneKind(c, f0, j) ==
  LET f  == IgnoreFlags(f0, j)
      rs == IF RStoreOf(f, j) # NoRes THEN IncReadStore(c, f, j)
                                      ELSE [ok |-> TRUE, c |-> c]
      ws == IF WStoreOf(f, j) # NoRes THEN IncWriteStore(rs.c, f, j)
                                      ELSE [ok |-> TRUE, c |-> rs.c]
      cl == IncClientConcurrency(ws.c, f, j)
      jb == IncJobConcurrency(cl.c, f, j)
  IN  IF ~rs.ok
        THEN [ok |-> FALSE, c |-> rs.c, f |-> setJobStatus(f, j, "WaitJobRes")]
      ELSE IF ~ws.ok
        THEN [ok |-> FALSE, c |-> DecReadStore(ws.c, f, j),
              f |-> setJobStatus(f, j, "WaitJobRes")]
      ELSE IF ~cl.ok
        THEN [ok |-> FALSE, c |-> DecReadStore(DecWriteStore(cl.c, f, j), f, j),
              f |-> setJobStatus(f, j, "WaitJobRes")]
      ELSE IF ~jb.ok
        THEN [ok |-> FALSE,
              c |-> DecClientConcurrency(
                      DecReadStore(DecWriteStore(jb.c, f, j), f, j), f, j),
              f |-> setJobStatus(f, j, "WaitJobRes")]
      ELSE [ok |-> TRUE, c |-> jb.c, f |-> [f EXCEPT ![j].acquired = TRUE]]

\* AcquireResources(jcr): [ok, c, f], the result and the tables after it.
AcquireResources(c, f0, j) ==
  LET f  == IgnoreFlags(f0, j)
      rs == IF RStoreOf(f, j) # NoRes THEN IncReadStore(c, f, j)
                                      ELSE [ok |-> TRUE, c |-> c]
      ws == IF WStoreOf(f, j) # NoRes THEN IncWriteStore(rs.c, f, j)
                                      ELSE [ok |-> TRUE, c |-> rs.c]
      cl == IncClientConcurrency(ws.c, f, j)
      jb == IncJobConcurrency(cl.c, f, j)
  IN  IF ~rs.ok
        THEN [ok |-> FALSE, c |-> rs.c, f |-> setJobStatus(f, j, "WaitStoreRes")]
      ELSE IF ~ws.ok
        THEN [ok |-> FALSE, c |-> DecReadStore(ws.c, f, j),
              f |-> setJobStatus(f, j, "WaitStoreRes")]
      ELSE IF ~cl.ok
        THEN [ok |-> FALSE, c |-> DecReadStore(DecWriteStore(cl.c, f, j), f, j),
              f |-> setJobStatus(f, j, "WaitClientRes")]
      ELSE IF ~jb.ok
        THEN [ok |-> FALSE,
              c |-> DecClientConcurrency(
                      DecReadStore(DecWriteStore(jb.c, f, j), f, j), f, j),
              f |-> setJobStatus(f, j, "WaitJobRes")]
      ELSE [ok |-> TRUE, c |-> jb.c, f |-> [f EXCEPT ![j].acquired = TRUE]]

\* The four releases of jobq_server after the engine returned.
ReleaseResources(c, f, j) ==
  DecJobConcurrency(
    DecClientConcurrency(DecWriteStore(DecReadStore(c, f, j), f, j), f, j), f, j)

\* ---------------------------------------------------------------- state
\* The program state as one record; every operation below maps a state to
\* the set of states it can leave behind.
St == [valid |-> valid, quit |-> quit, num_workers |-> num_workers,
       qmutex |-> qmutex, waiting |-> waiting, ready |-> ready,
       running |-> running, ncj |-> ncj, nrj |-> nrj, rmutex |-> rmutex,
       jcr |-> jcr, wk |-> wk, waiter |-> waiter, cancelling |-> cancelling,
       dpc |-> dpc, faults |-> faults, crashed |-> crashed]

Become(t) ==
  /\ valid' = t.valid
  /\ quit' = t.quit
  /\ num_workers' = t.num_workers
  /\ qmutex' = t.qmutex
  /\ waiting' = t.waiting
  /\ ready' = t.ready
  /\ running' = t.running
  /\ ncj' = t.ncj
  /\ nrj' = t.nrj
  /\ rmutex' = t.rmutex
  /\ jcr' = t.jcr
  /\ wk' = t.wk
  /\ waiter' = t.waiter
  /\ cancelling' = t.cancelling
  /\ dpc' = t.dpc
  /\ faults' = t.faults
  /\ crashed' = t.crashed
  /\ UNCHANGED <<cfg, probe>>

DeadWk == [pc |-> "dead", jcr |-> NullPtr, je |-> NullPtr, njcr |-> NullPtr,
           timedout |-> FALSE, Priority |-> 0, mix |-> FALSE,
           it |-> 0, dangling |-> FALSE]
NewWk == [DeadWk EXCEPT !.pc = "start"]

\* The process after it died on an invalid pointer: nothing of it is left.
Died == [valid |-> FALSE, quit |-> FALSE, num_workers |-> 0,
         qmutex |-> MutexFree, waiting |-> <<>>, ready |-> <<>>,
         running |-> <<>>, ncj |-> [r \in Resources |-> 0],
         nrj |-> [r \in Stores |-> 0], rmutex |-> FALSE,
         jcr |-> [j \in Jobs |-> NoJcr],
         wk |-> [w \in Workers |-> DeadWk], waiter |-> {}, cancelling |-> {},
         dpc |-> "idle", faults |-> 0, crashed |-> TRUE]

\* The concurrency registry as a thread finds it.
Registry(s) == [n |-> s.ncj, r |-> s.nrj, m |-> s.rmutex]

\* No worker is inside a critical section of the queue.
Quiescent == qmutex \notin Workers
\* pthread_create, malloc and the condition waits may fail MaxFaults times;
\* configuration 3 is explored without such failures.
MayFail(s) == cfg # 3 /\ s.faults < MaxFaults
Fault(s) == [s EXCEPT !.faults = @ + 1]
Ret(st, s) == [st |-> st, s |-> s]
States(rs) == {r.s : r \in rs}

\* --------------------------------------------------------------- JobqAdd
\* pthread_create(jobq_server): the new thread takes a free slot.
Spawn(ws) ==
  LET slot == CHOOSE x \in Workers :
                /\ ws[x].pc = "dead"
                /\ \A y \in Workers : ws[y].pc = "dead" => x <= y
  IN  [ws EXCEPT ![slot] = NewWk]

\* A StartServer that creates a thread however many workers there are.
StartServer_NoLimit(s) ==
  {Ret("ok", [s EXCEPT !.num_workers = @ + 1,
                       !.wk = IF \E x \in Workers : @[x].pc = "dead"
                              THEN Spawn(@) ELSE @])}

\* StartServer(jq): the outcomes [st, s]; pthread_create may fail.
StartServer(s) ==
  IF s.num_workers < max_workers
  THEN {Ret("ok", [s EXCEPT !.num_workers = @ + 1, !.wk = Spawn(@)])}
       \cup (IF MayFail(s) THEN {Ret("EAGAIN", Fault(s))} ELSE {})
  ELSE {Ret("ok", s)}

\* An insertion that ignores priorities.
InsertWaiting_AtTail(f, w, j) == Append(w, j)

\* The priority insertion of JobqAdd: at the first entry li whose priority
\* value is greater than jcr's the code inserts li (not item) before li;
\* with no such entry it appends item.
InsertWaiting(f, w, j) ==
  LET greater == {i \in 1..Len(w) : JobPriority(f, w[i]) > JobPriority(f, j)}
  IN  IF greater # {}
      THEN LET i == CHOOSE x \in greater : \A y \in greater : x <= y
           IN  SubSeq(w, 1, i - 1) \o <<w[i]>> \o SubSeq(w, i, Len(w))
      ELSE Append(w, j)

\* The part of JobqAdd under jq->mutex, after the allocation.
Enqueue(s, j) ==
  IF JobCanceled(s.jcr, j)
  THEN [s EXCEPT !.ready = <<j>> \o @]
  ELSE [s EXCEPT !.waiting = InsertWaiting(s.jcr, @, j)]

\* JobqAdd(jq, jcr): the outcomes [st, s].  Empty while the caller is
\* blocked in P(jq->mutex).
JobqAdd(s, j) ==
  LET s1 == [s EXCEPT !.jcr[j].UseCount = @ + 1] IN
  IF ~s.valid THEN {Ret("EINVAL", s)}
  ELSE IF ~JobCanceled(s.jcr, j) /\ ~s.jcr[j].due
    THEN {Ret("ok", [s1 EXCEPT !.waiter = @ \cup {j},
                              !.jcr = setJobStatus(@, j, "WaitStartTime")])}
         \cup (IF MayFail(s) THEN {Ret("EAGAIN", Fault(s1))} ELSE {})
  ELSE IF s.qmutex # MutexFree THEN {}
  ELSE StartServer(Enqueue(s1, j))
       \cup (IF MayFail(s)
             THEN {Ret("ENOMEM", Fault([s1 EXCEPT !.jcr = FreeJcr(@, j),
                                                  !.qmutex = MutexLeaked]))}
             ELSE {})

\* RunJob(jcr), the external entry point that submits a new job.
RunJob(s, j) == JobqAdd(s, j)

\* A caller creates job j (scheduled now or later), runs it and releases
\* its own reference.
Submit(s, j, d) ==
  LET s0 == [s EXCEPT !.jcr[j] = [NoJcr EXCEPT !.alloc = "live", !.row = j,
                                               !.UseCount = 1, !.due = d]]
  IN  {[t EXCEPT !.jcr = FreeJcr(@, j)] : t \in States(RunJob(s0, j))}

\* sched_wait once the time has come or the job is cancelled: JobqAdd, then
\* FreeJcr.
sched_wait(s, j) ==
  {[t EXCEPT !.jcr = FreeJcr(@, j), !.waiter = @ \ {j}]
     : t \in States(JobqAdd(s, j))}

\* CancelJob marks the job cancelled; its call of JobqRemove follows.
CancelJob(s, j) ==
  [s EXCEPT !.jcr[j].JobStatus = "Canceled", !.cancelling = @ \cup {j}]

\* A JobqRemove that does not look at jq->valid.
JobqRemove_NoValidTest(s, j) ==
  IF s.qmutex # MutexFree THEN {}
  ELSE IF \A i \in 1..Len(s.waiting) : s.waiting[i] # j THEN {Ret("EINVAL", s)}
  ELSE UNION {IF item = BadPtr THEN {Ret("crash", Died)}
              ELSE StartServer([s EXCEPT !.waiting = RemoveAll(@, item),
                                         !.ready = <<item>> \o @])
                : item \in {p \in Jobs : Live(s.jcr, p)} \cup {BadPtr}}

\* JobqRemove(jq, jcr).  `item` of the outer scope is never assigned: the
\* list operations after the search use an arbitrary pointer.
JobqRemove(s, j) ==
  IF ~s.valid THEN {Ret("EINVAL", s)}
  ELSE IF s.qmutex # MutexFree THEN {}
  ELSE IF \A i \in 1..Len(s.waiting) : s.waiting[i] # j THEN {Ret("EINVAL", s)}
  ELSE UNION {IF item = BadPtr THEN {Ret("crash", Died)}
              ELSE StartServer([s EXCEPT !.waiting = RemoveAll(@, item),
                                         !.ready = <<item>> \o @])
                : item \in {p \in Jobs : Live(s.jcr, p)} \cup {BadPtr}}

\* ----------------------------------------------------------- jobq_server
\* The thread starts: P(jq->mutex); work is true, so it does not wait.
Server_Start(s, w) == {[s EXCEPT !.qmutex = w, !.wk[w].pc = "drain"]}

\* pthread_cond_timedwait returns: timed out, woken, or failed.
Server_TimedWait(s, w) ==
  {[s EXCEPT !.qmutex = w, !.wk[w].pc = "drain", !.wk[w].timedout = TRUE],
   [s EXCEPT !.qmutex = w, !.wk[w].pc = "drain"]}
  \cup (IF MayFail(s)
        THEN {Fault([s EXCEPT !.num_workers = @ - 1, !.wk[w] = DeadWk])}
        ELSE {})

\* A drain loop that calls the engine without releasing the mutex.
Server_Drain_KeepsMutex(s, w) ==
  IF s.ready # <<>> /\ ~s.quit
  THEN LET p  == Head(s.ready)
           s1 == [s EXCEPT !.ready = RemoveAll(@, p)]
       IN  UNION {
             IF r.st # "ok"
             THEN {[r.s EXCEPT !.num_workers = @ - 1, !.wk[w] = DeadWk,
                               !.qmutex = MutexFree]}
             ELSE IF ~Live(s.jcr, p) THEN {Died}
             ELSE {IF jev = BadPtr THEN Died
                   ELSE [r.s EXCEPT !.running = Append(@, jev),
                                    !.wk[w].pc = "engine", !.wk[w].jcr = p,
                                    !.wk[w].je = jev]
                     : jev \in {p, BadPtr}}
             : r \in IF s1.ready # <<>> THEN StartServer(s1)
                     ELSE {Ret("ok", s1)}}
  ELSE {[s EXCEPT !.wk[w].pc = "promote"]}

\* One test of the drain loop: take the head of ready, start another server
\* when more is ready, append to running, release the mutex for the engine.
\* `*je` is read after ready_jobs.remove erased its node.
Server_Drain(s, w) ==
  IF s.ready # <<>> /\ ~s.quit
  THEN LET p  == Head(s.ready)
           s1 == [s EXCEPT !.ready = RemoveAll(@, p)]
       IN  UNION {
             IF r.st # "ok"
             THEN {[r.s EXCEPT !.num_workers = @ - 1, !.wk[w] = DeadWk,
                               !.qmutex = MutexFree]}
             ELSE IF ~Live(s.jcr, p) THEN {Died}
             ELSE {IF jev = BadPtr THEN Died
                   ELSE [r.s EXCEPT !.running = Append(@, jev),
                                    !.wk[w].pc = "engine", !.wk[w].jcr = p,
                                    !.wk[w].je = jev, !.qmutex = MutexFree]
                     : jev \in {p, BadPtr}}
             : r \in IF s1.ready # <<>> THEN StartServer(s1)
                     ELSE {Ret("ok", s1)}}
  ELSE {[s EXCEPT !.wk[w].pc = "promote"]}

\* The basic condition with the cap compared inclusively.
ReschedWanted_Inclusive(f, j) ==
  /\ \/ RescheduleTimes(f, j) = 0
     \/ f[j].reschedule_count <= RescheduleTimes(f, j)
  /\ \/ /\ RescheduleIncompleteJobs(f, j)
        /\ f[j].JobStatus = "Incomplete"
        /\ JobTypeOf(f, j) = "Backup"
        /\ JobLevelOf(f, j) # "Base"
     \/ /\ RescheduleOnError(f, j)
        /\ f[j].JobStatus # "TerminatedOk"
        /\ f[j].JobStatus # "Canceled"
        /\ JobTypeOf(f, j) = "Backup"

\* A condition that reschedules canceled jobs like other failed jobs.
ReschedCond_CanceledToo(times, count, incomplete, onerror, status, type, level) ==
  /\ \/ times = 0
     \/ count < times
  /\ \/ /\ incomplete
        /\ status = "Incomplete"
        /\ type = "Backup"
        /\ level # "Base"
     \/ /\ onerror
        /\ status # "TerminatedOk"
        /\ type = "Backup"

\* The value of `resched` in RescheduleJob: the basic condition (more
\* reschedule times remain) and the checks for incomplete and failed jobs.
ReschedCond(times, count, incomplete, onerror, status, type, level) ==
  /\ \/ times = 0
     \/ count < times
  /\ \/ /\ incomplete
        /\ status = "Incomplete"
        /\ type = "Backup"
        /\ level # "Base"
     \/ /\ onerror
        /\ status # "TerminatedOk"
        /\ status # "Canceled"
        /\ type = "Backup"

\* `resched` for the jcr the worker hands to RescheduleJob.
ReschedWanted(f, j) ==
  ReschedCond(RescheduleTimes(f, j), f[j].reschedule_count,
              RescheduleIncompleteJobs(f, j), RescheduleOnError(f, j),
              f[j].JobStatus, JobTypeOf(f, j), JobLevelOf(f, j))

\* The bookkeeping of RescheduleJob before the duplicate-job check.
ReschedMark(f, j) ==
  [f EXCEPT ![j].reschedule_count = @ + 1,
            ![j].due = (RescheduleInterval(f, j) = 0),
            ![j].JobStatus = "None"]

\* A clone that starts with the defaults of a new jcr: no reschedule count,
\* due at once.
CloneJcr_Defaults(f, j, n) ==
  [f EXCEPT ![n] = [NoJcr EXCEPT !.alloc = "live", !.row = f[j].row,
                                 !.UseCount = 1,
                                 !.due = TRUE,
                                 !.JobStatus = f[j].JobStatus]]

\* NewDirectorJcr + SetJcrDefaults and the fields RescheduleJob copies.
CloneJcr(f, j, n) ==
  [f EXCEPT ![n] = [NoJcr EXCEPT !.alloc = "live", !.row = f[j].row,
                                 !.UseCount = 1,
                                 !.reschedule_count = f[j].reschedule_count,
                                 !.due = f[j].due,
                                 !.JobStatus = f[j].JobStatus]]

Unused(f) == {n \in Jobs : f[n].alloc = "unused"}

\* RescheduleJob(jcr, jq, je) up to the point where it releases the mutex
\* or returns: the worker goes on to free the jcr ("free"), to requeue it
\* ("resched_add") or to run its clone ("clone_run").
RescheduleJob(s, w, j) ==
  IF ~ReschedWanted(s.jcr, j)
  THEN {[s EXCEPT !.qmutex = MutexFree, !.wk[w].pc = "free"]}
  ELSE LET s1 == [s EXCEPT !.jcr = ReschedMark(@, j), !.qmutex = MutexFree] IN
       {[s1 EXCEPT !.wk[w].pc = "free"]}
       \cup
       (IF s1.jcr[j].JobBytes = 0
        THEN {[s1 EXCEPT !.jcr = setJobStatus(@, j, "WaitStartTime"),
                         !.wk[w].pc = "resched_add"]}
        ELSE LET n == CHOOSE x \in Unused(s.jcr) :
                        \A y \in Unused(s.jcr) : x <= y
             IN  {[s1 EXCEPT !.jcr = CloneJcr(
                                setJobStatus(@, j, "WaitStartTime"), j, n),
                             !.wk[w].pc = "clone_run", !.wk[w].njcr = n]})

\* What the engine can leave in the jcr: a final status and whether bytes
\* were written.
EngineResults(s, j) ==
  LET terms == IF JobCanceled(s.jcr, j) THEN {"Canceled"}
               ELSE IF RescheduleOnError(s.jcr, j)
                 THEN {"TerminatedOk", "ErrorTerminated", "Incomplete"}
               ELSE {"TerminatedOk"}
  IN  {[term |-> t, bytes |-> b] : t \in terms, b \in {0, 1}}
      \ {e \in [term : terms, bytes : {1}] :
           e.term \in {"Canceled", "TerminatedOk"} \/ Unused(s.jcr) = {}}

\* The engine runs the job and returns; the worker takes the mutex again,
\* removes the job from running, releases its permits and asks RescheduleJob.
\* The erased node je points to holds what it held when Server_Drain read
\* it: the stale value here, since the worker survived engine(*je).
Server_Engine(s, w) ==
  IF s.wk[w].je = BadPtr THEN {Died}
  ELSE LET j == s.wk[w].jcr IN
       UNION {
         LET s1 == [s EXCEPT !.jcr[j].JobStatus = e.term,
                             !.jcr[j].JobBytes = e.bytes,
                             !.qmutex = w,
                             !.running = RemoveAll(@, s.wk[w].je)]
             c1 == IF s1.jcr[j].acquired
                   THEN ReleaseResources(Registry(s), s1.jcr, j)
                   ELSE Registry(s)
             s2 == [s1 EXCEPT !.ncj = c1.n, !.nrj = c1.r, !.rmutex = c1.m,
                              !.jcr[j].acquired = FALSE]
         IN  RescheduleJob(s2, w, j)
         : e \in EngineResults(s, j)}

\* In-place requeue: JobqAdd(jq, jcr) with the mutex released.
Server_ReschedAdd(s, w) ==
  {[t EXCEPT !.wk[w].pc = "resched_lock"]
     : t \in States(JobqAdd(s, s.wk[w].jcr))}

\* In-place requeue: P(jq->mutex); FreeJcr(jcr); free(je).  je is the JCR
\* itself, so its memory is released while the queue refers to it; when
\* FreeJcr already destroyed it, free(je) frees it a second time.
Server_ReschedLock(s, w) ==
  LET j  == s.wk[w].jcr
      f1 == FreeJcr(s.jcr, j)
      s1 == [s EXCEPT !.qmutex = w, !.wk[w].pc = "drain",
                      !.wk[w].jcr = NullPtr, !.wk[w].je = NullPtr]
  IN  IF f1[j].alloc = "freed"
      THEN {Died, [s1 EXCEPT !.jcr = f1]}
      ELSE {[s1 EXCEPT !.jcr = [f1 EXCEPT ![j].alloc = "stale"]]}

\* Clone: RunJob(njcr); FreeJcr(njcr) with the mutex released.
Server_CloneRun(s, w) ==
  {[t EXCEPT !.jcr = FreeJcr(@, s.wk[w].njcr), !.wk[w].pc = "clone_lock",
             !.wk[w].njcr = NullPtr]
     : t \in States(RunJob(s, s.wk[w].njcr))}

\* A clone mode that returns true: the worker goes on draining and leaves
\* the old jcr alone.
Server_CloneLock_Requeued(s, w) ==
  {[s EXCEPT !.qmutex = w, !.wk[w].pc = "drain", !.wk[w].jcr = NullPtr,
             !.wk[w].je = NullPtr]}

\* Clone: P(jq->mutex), RescheduleJob returns false, the worker unlocks again
\* to free the old jcr.
Server_CloneLock(s, w) == {[s EXCEPT !.wk[w].pc = "free"]}

\* "Clean up and release old jcr": FreeJcr(jcr); P(jq->mutex); back to the
\* drain loop.
Server_Free(s, w) ==
  {[s EXCEPT !.jcr = FreeJcr(@, s.wk[w].jcr), !.qmutex = w,
             !.wk[w].pc = "drain", !.wk[w].jcr = NullPtr,
             !.wk[w].je = NullPtr]}

\* `*re` for re = running_jobs.begin(): the first running job, or whatever
\* the end node holds when the list is empty.
RunningHead(run) == IF run = <<>> THEN {NullPtr, BadPtr} ELSE {Head(run)}

\* The loop `while (re != jq->waiting_jobs.end())` over the running list.
\* It compares an iterator of the running list with the end of the waiting
\* list, so it never ends by that test: it breaks at the first running job
\* that does not allow mixing, or walks off the running list.
RunningAllowMix(f, run) ==
  LET stop == {i \in 1..Len(run) :
                 ~Live(f, run[i]) \/ ~allow_mixed_priority(f, run[i])}
  IN  IF stop = {} THEN {"crash", "nomix"}
      ELSE LET i == CHOOSE x \in stop : \A y \in stop : x <= y
           IN  IF Live(f, run[i]) THEN {"nomix"} ELSE {"crash"}

\* "If any job in the wait queue can be run": choose the Priority to look
\* for and whether the running jobs allow mixing.
Server_Promote(s, w) ==
  IF s.waiting # <<>> /\ ~s.quit
  THEN UNION {
         IF re = NullPtr
         THEN IF Live(s.jcr, Head(s.waiting))
              THEN {[s EXCEPT !.wk[w].pc = "walk", !.wk[w].it = 1,
                              !.wk[w].dangling = FALSE, !.wk[w].mix = FALSE,
                              !.wk[w].Priority =
                                 JobPriority(s.jcr, Head(s.waiting))]}
              ELSE {Died}
         ELSE IF ~Live(s.jcr, re) THEN {Died}
         ELSE {IF m = "crash" THEN Died
               ELSE [s EXCEPT !.wk[w].pc = "walk", !.wk[w].it = 1,
                              !.wk[w].dangling = FALSE,
                              !.wk[w].mix = (m = "mix"),
                              !.wk[w].Priority = JobPriority(s.jcr, re)]
                 : m \in RunningAllowMix(s.jcr, s.running)}
         : re \in RunningHead(s.running)}
  ELSE {[s EXCEPT !.wk[w].pc = "checks"]}

\* A gate that lets a mixing job through whatever is running.
PriorityGate_IgnoreRunning(f, j, Priority, running_allow_mix) ==
  \/ JobPriority(f, j) = Priority
  \/ /\ JobPriority(f, j) < Priority
     /\ allow_mixed_priority(f, j)

\* "Take only jobs of correct Priority".
PriorityGate(f, j, Priority, running_allow_mix) ==
  \/ JobPriority(f, j) = Priority
  \/ /\ JobPriority(f, j) < Priority
     /\ allow_mixed_priority(f, j)
     /\ running_allow_mix

\* A walk that always examines the last waiting entry.
WalkRead_Last(s, w) ==
  IF s.wk[w].dangling THEN {s.wk[w].je, BadPtr}
  ELSE IF s.wk[w].it > Len(s.waiting) THEN {NullPtr, BadPtr}
  ELSE {s.waiting[Len(s.waiting)]}

\* `*je` in the walk: the entry under the iterator, the end node, or the
\* erased node of the entry moved last.
WalkRead(s, w) ==
  IF s.wk[w].dangling THEN {s.wk[w].je, BadPtr}
  ELSE IF s.wk[w].it > Len(s.waiting) THEN {NullPtr, BadPtr}
  ELSE {s.waiting[s.wk[w].it]}

\* `je = jn`.  jn was taken before the body ran: it is the next entry, or
\* an erased node when waiting_jobs.remove erased it together with the
\* entry (the next entry held the same jcr); taken from an erased node it
\* is the entry that followed the erased ones, or garbage ("crash").
WalkNext(s, w, j, removed) ==
  LET k    == s.wk[w].it
      next == Cardinality({i \in 1..k : s.waiting[i] # j}) + 1
  IN  IF s.wk[w].dangling
        THEN {[s.wk[w] EXCEPT !.dangling = FALSE, !.je = NullPtr],
              [s.wk[w] EXCEPT !.pc = "crash"]}
      ELSE IF ~removed THEN {[s.wk[w] EXCEPT !.it = k + 1]}
      ELSE IF k + 1 <= Len(s.waiting) /\ s.waiting[k + 1] = j
        THEN {[s.wk[w] EXCEPT !.dangling = TRUE, !.je = j, !.it = next]}
      ELSE {[s.wk[w] EXCEPT !.it = next]}

\* One iteration of the walk down the waiting list.
Server_Walk(s, w) ==
  UNION {
    IF j = NullPtr THEN {[s EXCEPT !.wk[w].pc = "checks"]}
    ELSE IF j = BadPtr THEN {Died}
    ELSE IF ~Live(s.jcr, j) THEN {Died}
    ELSE IF ~PriorityGate(s.jcr, j, s.wk[w].Priority, s.wk[w].mix)
      THEN {[s EXCEPT !.jcr = setJobStatus(@, j, "WaitPriority"),
                      !.wk[w].pc = "checks"]}
    ELSE LET a  == AcquireResources(Registry(s), s.jcr, j)
             s1 == [s EXCEPT !.ncj = a.c.n, !.nrj = a.c.r, !.rmutex = a.c.m,
                             !.jcr = a.f]
         IN  IF ~a.ok /\ ~JobCanceled(a.f, j)
             THEN {IF n.pc = "crash" THEN Died ELSE [s1 EXCEPT !.wk[w] = n]
                     : n \in WalkNext(s, w, j, FALSE)}
             ELSE {IF v = BadPtr \/ n.pc = "crash" THEN Died
                   ELSE [s1 EXCEPT !.waiting = RemoveAll(@, j),
                                   !.ready = Append(@, v),
                                   !.wk[w] = n]
                     : v \in {j, BadPtr}, n \in WalkNext(s, w, j, TRUE)}
    : j \in WalkRead(s, w)}

\* The two exit tests and the computation of `work`; the mutex is released
\* for the nap, for the timed wait, or on exit.
Server_Checks(s, w) ==
  IF s.ready = <<>> /\ (s.quit \/ s.wk[w].timedout)
  THEN {[s EXCEPT !.num_workers = @ - 1, !.wk[w] = DeadWk,
                  !.qmutex = MutexFree]}
  ELSE LET work == s.ready # <<>> \/ s.waiting # <<>> IN
       {[s EXCEPT !.qmutex = MutexFree,
                  !.wk[w] = [DeadWk EXCEPT
                               !.timedout = s.wk[w].timedout,
                               !.pc = IF work THEN "nap" ELSE "timedwait"]]}

\* After Bmicrosleep: P(jq->mutex), recompute work, top of the big loop.
Server_Nap(s, w) ==
  LET work == s.ready # <<>> \/ s.waiting # <<>> IN
  IF ~work /\ ~s.quit
  THEN {[s EXCEPT !.wk[w].pc = "timedwait"]}
  ELSE {[s EXCEPT !.wk[w].pc = "drain", !.qmutex = w]}

\* ----------------------------------------------------------- JobqDestroy
\* JobqDestroy up to its first pthread_cond_wait, or to its return when no
\* worker is active.
JobqDestroy(s) ==
  IF ~s.valid THEN {Ret("EINVAL", s)}
  ELSE IF s.qmutex # MutexFree THEN {}
  ELSE IF s.num_workers > 0
    THEN {Ret("wait", [s EXCEPT !.valid = FALSE, !.quit = TRUE,
                                !.dpc = "wait"])}
  ELSE {Ret("ok", [s EXCEPT !.valid = FALSE, !.waiting = <<>>,
                            !.running = <<>>, !.ready = <<>>,
                            !.dpc = "done"])}

\* A destroy that returns at its first wake-up, workers or not.
JobqDestroyWake_NoWait(s) ==
  {[s EXCEPT !.waiting = <<>>, !.running = <<>>, !.ready = <<>>,
             !.dpc = "done"]}

\* pthread_cond_wait returns in JobqDestroy: with an error, or with the
\* mutex and num_workers = 0.
JobqDestroyWake(s) ==
  (IF MayFail(s) THEN {Fault([s EXCEPT !.dpc = "error"])} ELSE {})
  \cup (IF s.num_workers = 0
        THEN {[s EXCEPT !.waiting = <<>>, !.running = <<>>, !.ready = <<>>,
                        !.dpc = "done"]}
        ELSE {})

\* -------------------------------------------------------------- actions
\* Whether a submitted job may have a start time in the future: the urgent
\* job of configuration 1 may (in configuration 3 the waiter serves the
\* jobs rescheduled after an interval).
Deferrals(j) == IF cfg = 1 /\ j = 2 THEN BOOLEAN ELSE {TRUE}

\* A new JCR is created and handed to RunJob.
SubmitJob(j) ==
  /\ ~crashed /\ Quiescent
  /\ jcr[j].alloc = "unused"
  /\ \A i \in Jobs : i < j => jcr[i].alloc # "unused"
  /\ \E d \in Deferrals(j) : \E t \in Submit(St, j, d) : Become(t)

\* The start time of a deferred job arrives.
Tick(j) ==
  /\ ~crashed /\ Quiescent
  /\ j \in waiter /\ ~jcr[j].due
  /\ jcr' = [jcr EXCEPT ![j].due = TRUE]
  /\ UNCHANGED <<cfg, valid, quit, num_workers, qmutex, waiting, ready,
                 running, ncj, nrj, rmutex, wk, waiter, cancelling, dpc,
                 faults, crashed, probe>>

\* The sched_wait thread of job j wakes up, the start time reached or the
\* job canceled, and queues the job.
SchedWait(j) ==
  /\ ~crashed /\ Quiescent
  /\ j \in waiter
  /\ jcr[j].due \/ JobCanceled(jcr, j)
  /\ \E t \in sched_wait(St, j) : Become(t)

\* Somebody cancels a job that has not terminated (configuration 3 is
\* explored without cancellations).
Cancel(j) ==
  /\ ~crashed /\ Quiescent
  /\ cfg # 3
  /\ jcr[j].alloc = "live"
  /\ jcr[j].JobStatus \notin
       {"Canceled", "TerminatedOk", "ErrorTerminated", "Incomplete"}
  /\ Become(CancelJob(St, j))

\* The canceller calls JobqRemove for the job it canceled.
Remove(j) ==
  /\ ~crashed /\ Quiescent
  /\ j \in cancelling
  /\ \E t \in States(JobqRemove([St EXCEPT !.cancelling = @ \ {j}], j)) :
       Become(t)

\* JobqDestroy is called, for the first time or again after it returned.
Destroy ==
  /\ ~crashed /\ Quiescent
  /\ dpc # "wait"
  /\ \E t \in States(JobqDestroy(St)) : Become(t)

DestroyWake ==
  /\ ~crashed /\ Quiescent
  /\ dpc = "wait" /\ qmutex = MutexFree
  /\ \E t \in JobqDestroyWake(St) : Become(t)

\* A use of the memory of a JCR that free(je) released.
MemoryFault ==
  /\ ~crashed /\ Quiescent
  /\ \E j \in Jobs : jcr[j].alloc = "stale"
  /\ Become(Died)

\* A worker that needs the mutex and finds it free.
Locks(w, pc) == ~crashed /\ wk[w].pc = pc /\ qmutex = MutexFree
\* A worker that holds the mutex.
Holds(w, pc) == ~crashed /\ wk[w].pc = pc /\ qmutex = w
\* A worker outside the mutex that does not need it for its next step.
Free(w, pc) == ~crashed /\ wk[w].pc = pc /\ Quiescent

WStart(w) == Locks(w, "start") /\ \E t \in Server_Start(St, w) : Become(t)
WTimedWait(w) ==
  Locks(w, "timedwait") /\ \E t \in Server_TimedWait(St, w) : Become(t)
WDrain(w) == Holds(w, "drain") /\ \E t \in Server_Drain(St, w) : Become(t)
WEngine(w) == Locks(w, "engine") /\ \E t \in Server_Engine(St, w) : Become(t)
WReschedAdd(w) ==
  Free(w, "resched_add") /\ \E t \in Server_ReschedAdd(St, w) : Become(t)
WReschedLock(w) ==
  Locks(w, "resched_lock") /\ \E t \in Server_ReschedLock(St, w) : Become(t)
WCloneRun(w) ==
  Free(w, "clone_run") /\ \E t \in Server_CloneRun(St, w) : Become(t)
WCloneLock(w) ==
  Locks(w, "clone_lock") /\ \E t \in Server_CloneLock(St, w) : Become(t)
WFree(w) == Locks(w, "free") /\ \E t \in Server_Free(St, w) : Become(t)
WPromote(w) ==
  Holds(w, "promote") /\ \E t \in Server_Promote(St, w) : Become(t)
WWalk(w) == Holds(w, "walk") /\ \E t \in Server_Walk(St, w) : Become(t)
WChecks(w) == Holds(w, "checks") /\ \E t \in Server_Checks(St, w) : Become(t)
WNap(w) == Locks(w, "nap") /\ \E t \in Server_Nap(St, w) : Become(t)

\* JobqInit: an empty, valid queue with no workers.
JobqInit ==
  /\ valid = TRUE
  /\ quit = FALSE
  /\ num_workers = 0
  /\ qmutex = MutexFree
  /\ waiting = <<>>
  /\ ready = <<>>
  /\ running = <<>>
  /\ ncj = [r \in Resources |-> 0]
  /\ nrj = [r \in Stores |-> 0]
  /\ rmutex = FALSE
  /\ jcr = [j \in Jobs |-> NoJcr]
  /\ wk = [w \in Workers |-> DeadWk]
  /\ waiter = {}
  /\ cancelling = {}
  /\ dpc = "idle"
  /\ faults = 0
  /\ crashed = FALSE

\* No job is under test outside the queue.
NoProbe == [times |-> 0, count |-> 0, incomplete |-> FALSE, onerror |-> FALSE,
            status |-> "None", type |-> "None", level |-> "None",
            resched |-> "untested"]

Init == cfg \in Scenarios /\ probe = NoProbe /\ JobqInit

Next ==
  \/ \E j \in Jobs : SubmitJob(j)
  \/ \E j \in Jobs : Tick(j)
  \/ \E j \in Jobs : SchedWait(j)
  \/ \E j \in Jobs : Cancel(j)
  \/ \E j \in Jobs : Remove(j)
  \/ Destroy
  \/ DestroyWake
  \/ MemoryFault
  \/ \E w \in Workers : WStart(w)
  \/ \E w \in Workers : WTimedWait(w)
  \/ \E w \in Workers : WDrain(w)
  \/ \E w \in Workers : WEngine(w)
  \/ \E w \in Workers : WReschedAdd(w)
  \/ \E w \in Workers : WReschedLock(w)
  \/ \E w \in Workers : WCloneRun(w)
  \/ \E w \in Workers : WCloneLock(w)
  \/ \E w \in Workers : WFree(w)
  \/ \E w \in Workers : WPromote(w)
  \/ \E w \in Workers : WWalk(w)
  \/ \E w \in Workers : WChecks(w)
  \/ \E w \in Workers : WNap(w)

Spec == Init /\ [][Next]_vars

\* ------------------------------------------- RescheduleJob on its own
\* The decision of RescheduleJob for one finished job of any policy, count,
\* final status, type and level.
TermStatus == {"TerminatedOk", "ErrorTerminated", "Incomplete", "Canceled"}
JobTypes == {"Backup", "Restore", "Migrate"}
JobLevels == {"Full", "Incremental", "Base"}

Probes == [times : 0..MaxReschedule, count : 0..MaxReschedule,
           incomplete : BOOLEAN, onerror : BOOLEAN, status : TermStatus,
           type : JobTypes, level : JobLevels, resched : {"untested"}]

InitResched == cfg = 1 /\ probe \in Probes /\ JobqInit

\* RescheduleJob computes `resched` for the job.
TestResched ==
  /\ probe.resched = "untested"
  /\ probe' = [probe EXCEPT !.resched =
                  IF ReschedCond(probe.times, probe.count, probe.incomplete,
                                 probe.onerror, probe.status, probe.type,
                                 probe.level)
                  THEN "yes" ELSE "no"]
  /\ UNCHANGED <<cfg, valid, quit, num_workers, qmutex, waiting, ready,
                 running, ncj, nrj, rmutex, jcr, wk, waiter, cancelling, dpc,
                 faults, crashed>>

NextResched == TestResched

SpecResched == InitResched /\ [][NextResched]_vars

\* ------------------------------------- admission and release alone
\* The jobs of the migration configuration exist and are handed, in any
\* order and any number of times, to AcquireResources and to the release
\* block of jobq_server.
InitAdmit == cfg = MigrationScenario /\ probe = NoProbe /\ JobqInit

\* The caller builds the jcr of job j.
TestNewJcr(j) ==
  /\ jcr[j].alloc = "unused"
  /\ jcr' = [jcr EXCEPT ![j] = [NoJcr EXCEPT !.alloc = "live", !.row = j,
                                             !.UseCount = 1]]
  /\ UNCHANGED <<cfg, valid, quit, num_workers, qmutex, waiting, ready,
                 running, ncj, nrj, rmutex, wk, waiter, cancelling, dpc,
                 faults, crashed, probe>>

\* The walk asks AcquireResources for job j.
TestAcquire(j) ==
  /\ Live(jcr, j) /\ ~jcr[j].acquired
  /\ LET a == AcquireResources(Registry(St), jcr, j) IN
       /\ ncj' = a.c.n /\ nrj' = a.c.r /\ rmutex' = a.c.m
       /\ jcr' = a.f
  /\ UNCHANGED <<cfg, valid, quit, num_workers, qmutex, waiting, ready,
                 running, wk, waiter, cancelling, dpc, faults, crashed, probe>>

\* The job has run: "Release locks if acquired".
TestRelease(j) ==
  /\ Live(jcr, j) /\ jcr[j].acquired
  /\ LET c == ReleaseResources(Registry(St), jcr, j) IN
       /\ ncj' = c.n /\ nrj' = c.r /\ rmutex' = c.m
       /\ jcr' = [jcr EXCEPT ![j].acquired = FALSE]
  /\ UNCHANGED <<cfg, valid, quit, num_workers, qmutex, waiting, ready,
                 running, wk, waiter, cancelling, dpc, faults, crashed, probe>>

\* "Clean up and release old jcr" for a job that holds no permit.
TestFree(j) ==
  /\ Live(jcr, j) /\ ~jcr[j].acquired
  /\ jcr' = FreeJcr(jcr, j)
  /\ UNCHANGED <<cfg, valid, quit, num_workers, qmutex, waiting, ready,
                 running, ncj, nrj, rmutex, wk, waiter, cancelling, dpc,
                 faults, crashed, probe>>

NextAdmit ==
  \E j \in Jobs :
     TestNewJcr(j) \/ TestAcquire(j) \/ TestRelease(j) \/ TestFree(j)

SpecAdmit == InitAdmit /\ [][NextAdmit]_vars

\* ------------------------------------------------ the queue left to run
\* The queue as the daemon runs it between start-up and shutdown: jobs are
\* submitted, nobody cancels and nobody destroys the queue; the job
\* definitions reschedule nothing (configurations 1 and 2).  Every thread
\* that can take a step again and again takes one in the end (the steps of
\* the model wait for the queue mutex, which keeps becoming free).
InitRun == cfg \in {1, 2} /\ probe = NoProbe /\ JobqInit

Worker(w) ==
  \/ WStart(w) \/ WTimedWait(w) \/ WDrain(w) \/ WEngine(w) \/ WFree(w)
  \/ WPromote(w) \/ WWalk(w) \/ WChecks(w) \/ WNap(w)

NextRun ==
  \/ \E j \in Jobs : SubmitJob(j)
  \/ \E j \in Jobs : Tick(j)
  \/ \E j \in Jobs : SchedWait(j)
  \/ \E w \in Workers : Worker(w)

FairRun ==
  /\ SF_vars(\E j \in Jobs : Tick(j))
  /\ SF_vars(\E j \in Jobs : SchedWait(j))
  /\ \A w \in Workers : SF_vars(Worker(w))

SpecRun == InitRun /\ [][NextRun]_vars /\ FairRun

\* ================================================================ claims
\* The jobs named by the entries of a list.
OnList(q) == {q[i] : i \in 1..Len(q)}

\* How many permits on resource res job j takes in AcquireResources.
Permits(f, j, res) ==
  (IF ~f[j].IgnoreStorage /\ RStoreOf(f, j) = res THEN 1 ELSE 0)
  + (IF ~f[j].IgnoreStorage /\ WStoreOf(f, j) = res THEN 1 ELSE 0)
  + (IF ~f[j].IgnoreClient /\ ClientOf(f, j) = res THEN 1 ELSE 0)
  + (IF JobDefOf(f, j) = res THEN 1 ELSE 0)

\* The permits on res held by the jobs of set S that hold their permits.
RECURSIVE Held(_, _)
Held(S, res) ==
  IF S \cap Jobs = {} THEN 0
  ELSE LET j == CHOOSE x \in S \cap Jobs : TRUE
       IN  (IF Live(jcr, j) /\ jcr[j].acquired THEN Permits(jcr, j, res)
            ELSE 0)
           + Held(S \ {j}, res)

\* C1: the concurrent-job counter of every client, job definition and
\* storage never exceeds the MaxConcurrentJobs of that resource.
C1_BoundedConcurrency ==
  \A res \in Resources : ncj[res] <= MaxConcurrentJobs(res)

\* A job was refused at a client that is at its limit.
C1_Witness ==
  /\ ~crashed
  /\ ncj["c1"] = MaxConcurrentJobs("c1")
  /\ \E j \in Jobs : jcr[j].alloc = "live" /\ jcr[j].JobStatus = "WaitClientRes"

\* C2: at every stable point the counter of every resource equals the
\* number of permits on it held by the jobs on the running list.
C2_PermitsOfRunning ==
  (~crashed /\ qmutex = MutexFree) =>
     \A res \in Resources : ncj[res] = Held(OnList(running), res)

\* Where the specification puts a job of priority pri: before the first
\* entry of strictly greater priority, or at the tail.
SpecInsert(f, w, j, pri) ==
  LET greater == {i \in 1..Len(w) : JobPriority(f, w[i]) > pri}
  IN  IF greater = {} THEN Append(w, j)
      ELSE LET i == CHOOSE x \in greater : \A y \in greater : x <= y
           IN  SubSeq(w, 1, i - 1) \o <<j>> \o SubSeq(w, i, Len(w))

\* C3: submitting a due, not canceled job to a valid queue puts the job
\* itself on waiting once, before the first entry of strictly greater
\* priority or at the tail, and leaves the other entries as they were.
C3_SubmitInsertsJob ==
  [][\A j \in Jobs :
       (/\ jcr[j].alloc = "unused" /\ jcr'[j].alloc = "live"
        /\ valid /\ jcr'[j].due /\ faults' = faults)
       => waiting' = SpecInsert(jcr, waiting, j, RowPriority(cfg, j))]_vars

\* C4: no JCR is on two of the lists waiting, ready and running.
C4_DisjointMembership ==
  /\ OnList(waiting) \cap OnList(ready) = {}
  /\ OnList(waiting) \cap OnList(running) = {}
  /\ OnList(ready) \cap OnList(running) = {}

\* C5: the waiting list is in non-decreasing order of priority value.
C5_WaitingSorted ==
  \A i \in 1..(Len(waiting) - 1) :
     (Live(jcr, waiting[i]) /\ Live(jcr, waiting[i + 1]))
     => JobPriority(jcr, waiting[i]) <= JobPriority(jcr, waiting[i + 1])

\* Two jobs of different priorities wait, the more urgent one first.
C5_Witness ==
  /\ Len(waiting) >= 2
  /\ Live(jcr, waiting[1]) /\ Live(jcr, waiting[2])
  /\ JobPriority(jcr, waiting[1]) < JobPriority(jcr, waiting[2])

\* A step of the walk down the waiting list by the worker holding the mutex.
WalkStep(w) == ~crashed /\ ~crashed' /\ qmutex = w /\ wk[w].pc = "walk"

\* Job b is moved from waiting to ready by the step.
Promoted(b) ==
  b \in OnList(waiting) /\ b \notin OnList(waiting') /\ b \in OnList(ready')

\* Job a stands before job b on the waiting list.
Before(a, b) ==
  \E i, k \in 1..Len(waiting) : i < k /\ waiting[i] = a /\ waiting[k] = b

C7_MixedPriorityRule ==
  [][\A w \in Workers : \A b \in Jobs :
       (/\ WalkStep(w)
        /\ running # <<>> /\ Live(jcr, Head(running))
        /\ b \in OnList(waiting) /\ Live(jcr, b)
        /\ JobPriority(jcr, b) < JobPriority(jcr, Head(running)))
       => /\ Promoted(b) =>
               \A r \in OnList(running) :
                  Live(jcr, r) /\ allow_mixed_priority(jcr, r)
          /\ (/\ ~wk[w].dangling /\ wk[w].it <= Len(waiting)
              /\ waiting[wk[w].it] = b
              /\ ~JobCanceled(jcr, b)
              /\ \E r \in OnList(running) :
                    Live(jcr, r) /\ ~allow_mixed_priority(jcr, r))
             => b \in OnList(waiting') /\ jcr'[b].JobStatus = "WaitPriority"
     ]_vars

\* A job waits with WaitPriority behind a running job of greater priority
\* value that forbids mixing.
C7_Witness ==
  /\ ~crashed
  /\ \E r \in OnList(running) : \E b \in OnList(waiting) :
       /\ Live(jcr, r) /\ Live(jcr, b)
       /\ ~allow_mixed_priority(jcr, r)
       /\ JobPriority(jcr, b) < JobPriority(jcr, r)
       /\ jcr[b].JobStatus = "WaitPriority"

\* C8: after destroy was called, a worker that finds the ready list
\* non-empty takes a job from it (and so the workers drain ready, exit, and
\* destroy returns).
C8_DrainAfterQuit ==
  [][\A w \in Workers :
       (~crashed /\ qmutex = w /\ wk[w].pc = "drain" /\ quit /\ ready # <<>>)
       => (crashed' \/ ready' # ready)]_vars

\* C9: when JobqDestroy has returned success, num_workers is 0 and the
\* waiting, ready and running lists are empty.
C9_DestroyLeavesNothing ==
  dpc = "done" =>
     num_workers = 0 /\ waiting = <<>> /\ ready = <<>> /\ running = <<>>

\* JobqDestroy returned after it had to wait for workers.
C9_Witness == ~crashed /\ dpc = "done" /\ quit

\* C10: the reschedule count of a job, original or clone, never exceeds the
\* RescheduleTimes of its job definition when that is positive.
C10_RescheduleCap ==
  \A j \in Jobs :
     (Live(jcr, j) /\ RescheduleTimes(jcr, j) > 0)
     => jcr[j].reschedule_count <= RescheduleTimes(jcr, j)

\* A clone carries a reschedule count that has reached the cap.
C10_Witness ==
  /\ ~crashed
  /\ \E j \in Jobs :
       /\ Live(jcr, j) /\ jcr[j].row # j
       /\ RescheduleTimes(jcr, j) > 0
       /\ jcr[j].reschedule_count = RescheduleTimes(jcr, j)

\* C11: the number of workers is never negative and never greater than
\* max_workers, whatever the interleaving of spawns and exits.
C11_WorkerBound == num_workers \in 0..max_workers

\* The pool is full after a thread failed or could not be created, and a
\* worker is about to leave on its idle timeout.
C11_Witness ==
  /\ ~crashed
  /\ num_workers = MaxWorkers
  /\ faults > 0
  /\ \E w \in Workers : wk[w].timedout

RemoveStep(j) ==
  ~crashed /\ ~crashed' /\ j \in cancelling /\ j \notin cancelling'

\* C13: JobqRemove of a job on waiting takes it off waiting and puts that
\* job at the front of ready, with acquired_resource_locks false and no
\* counter changed; for a job not on waiting it leaves the three lists alone.
C13_RemoveMovesToReadyFront ==
  [][\A j \in Jobs :
       (RemoveStep(j) /\ valid)
       => IF j \in OnList(waiting)
          THEN /\ waiting' = RemoveAll(waiting, j)
               /\ ready' = <<j>> \o ready
               /\ running' = running
               /\ ~jcr'[j].acquired
               /\ ncj' = ncj /\ nrj' = nrj
          ELSE waiting' = waiting /\ ready' = ready /\ running' = running
     ]_vars

\* How often job j stands on list q.
Count(q, j) == Cardinality({i \in 1..Len(q) : q[i] = j})

\* C14: a job a sched_wait thread sleeps for is on none of the three lists;
\* when the thread wakes it calls JobqAdd once, which queues the job once
\* without starting another waiter, and releases one reference.
C14_WaiterSubmitsOnce ==
  [][~crashed' =>
       /\ \A j \in waiter' :
            j \notin OnList(waiting') \cup OnList(ready') \cup OnList(running')
       /\ \A j \in waiter \ waiter' :
            (valid /\ faults' = faults)
            => /\ waiter' = waiter \ {j}
               /\ Count(waiting', j) + Count(ready', j) = 1
               /\ Count(running', j) = 0
               /\ jcr'[j].UseCount = jcr[j].UseCount
     ]_vars

\* The job the walk step of worker w examines: the entry under its iterator.
Examines(w, j) == WalkStep(w) /\ j \in WalkRead(St, w) /\ Live(jcr, j)

\* A job of types Migrate, Copy and Consolidate takes no client permit, and
\* no storage permit either when it is a control job.
SkipsClient(j) ==
  jcr[j].IgnoreClient \/ JobTypeOf(jcr, j) \in {"Migrate", "Copy", "Consolidate"}
SkipsStorage(j) ==
  \/ jcr[j].IgnoreStorage
  \/ /\ JobTypeOf(jcr, j) \in {"Migrate", "Copy", "Consolidate"}
     /\ MigrateJobId(jcr, j) = 0

\* The wait kind of the first permit job j cannot get, in the order read
\* storage, write storage, client, job definition; "none" when it can get
\* all of them.
FirstRefused(j) ==
  LET rs == RStoreOf(jcr, j)
      ws == WStoreOf(jcr, j)
      cl == ClientOf(jcr, j)
      jd == JobDefOf(jcr, j)
      rd == rs # NoRes /\ ~SkipsStorage(j)
  IN  IF rd /\ ncj[rs] >= MaxConcurrentJobs(rs) THEN "WaitStoreRes"
      ELSE IF /\ ws # NoRes /\ ~SkipsStorage(j)
              /\ ncj[ws] + (IF rd /\ rs = ws THEN 1 ELSE 0)
                   >= MaxConcurrentJobs(ws)
        THEN "WaitStoreRes"
      ELSE IF cl # NoRes /\ ~SkipsClient(j) /\ ncj[cl] >= MaxConcurrentJobs(cl)
        THEN "WaitClientRes"
      ELSE IF ncj[jd] >= MaxConcurrentJobs(jd) THEN "WaitJobRes"
      ELSE "none"

\* C15: when the walk examines a job of the right priority and one of its
\* four permits cannot be had, every counter keeps its value, the job's
\* acquired_resource_locks is false, and the job, unless canceled, stays on
\* waiting.
C15_AllOrNothing ==
  [][\A w \in Workers : \A j \in Jobs :
       (/\ Examines(w, j)
        /\ PriorityGate(jcr, j, wk[w].Priority, wk[w].mix)
        /\ FirstRefused(j) # "none")
       => /\ ncj' = ncj /\ nrj' = nrj
          /\ ~jcr'[j].acquired
          /\ (j \in OnList(waiting) /\ ~JobCanceled(jcr, j))
             => /\ waiting' = waiting
                /\ j \notin OnList(ready')
     ]_vars

\* A job that reads from and writes to storage s2 was refused at the write
\* permit after it took the read permit: it waits, and s2 counts the other
\* job only.
C15_Witness ==
  /\ ~crashed /\ cfg = 2 /\ qmutex = MutexFree
  /\ 3 \in OnList(waiting) /\ jcr[3].JobStatus = "WaitStoreRes"
  /\ ~jcr[3].acquired
  /\ 2 \notin OnList(waiting) /\ Live(jcr, 2) /\ jcr[2].acquired
  /\ ncj["s2"] = 1 /\ nrj["s2"] = 0

\* C16: a job that fails admission and is not canceled gets the wait kind
\* of the first permit it could not get, in the order read storage, write
\* storage, client, job definition: WaitStoreRes, WaitStoreRes,
\* WaitClientRes, WaitJobRes.
C16_WaitKindOfFirstRefusal ==
  [][\A w \in Workers : \A j \in Jobs :
       (/\ Examines(w, j)
        /\ PriorityGate(jcr, j, wk[w].Priority, wk[w].mix)
        /\ FirstRefused(j) # "none"
        /\ ~JobCanceled(jcr, j))
       => jcr'[j].JobStatus = FirstRefused(j)
     ]_vars

\* Three jobs write to storage s1, which admits two: two of them run and
\* the third is on waiting with WaitStoreRes.
C16_Witness ==
  /\ ~crashed /\ cfg = 3
  /\ MaxConcurrentJobs("s1") = 2
  /\ \E a, b, c \in Jobs :
       /\ a # b /\ a # c /\ b # c
       /\ {a, b} \subseteq OnList(running)
       /\ jcr[a].acquired /\ jcr[b].acquired
       /\ WStoreOf(jcr, a) = "s1" /\ WStoreOf(jcr, b) = "s1"
       /\ WStoreOf(jcr, c) = "s1"
       /\ c \in OnList(waiting) /\ jcr[c].JobStatus = "WaitStoreRes"

\* C17: every job on the running list holds its permits
\* (acquired_resource_locks is true) or is canceled.
C17_RunningHoldsPermits ==
  \A j \in OnList(running) :
     Live(jcr, j) => (jcr[j].acquired \/ JobCanceled(jcr, j))

\* C18: a worker does not hold the queue mutex while the engine runs, while
\* it calls JobqAdd or RunJob from RescheduleJob, or during its 2 second
\* nap; and the registry mutex is held by nobody whenever a thread is about
\* to take the queue mutex.
C18_MutexDiscipline ==
  /\ \A w \in Workers :
       wk[w].pc \in {"engine", "resched_add", "clone_run", "nap"}
       => qmutex # w
  /\ ~rmutex

\* A worker is in the engine with permits taken from the registry while
\* another worker holds the queue mutex.
C18_Witness ==
  /\ ~crashed
  /\ \E w, v \in Workers :
       /\ wk[w].pc = "engine" /\ qmutex = v /\ v # w
       /\ Live(jcr, wk[w].jcr) /\ jcr[wk[w].jcr].acquired

\* The reschedule condition as the specification words it.
SpecCandidate(p) ==
  /\ p.times = 0 \/ p.count < p.times
  /\ \/ p.incomplete /\ p.status = "Incomplete" /\ p.type = "Backup"
        /\ p.level # "Base"
     \/ p.onerror /\ p.status # "TerminatedOk" /\ p.status # "Canceled"
        /\ p.type = "Backup"

\* C19: RescheduleJob treats a finished job as a candidate exactly when
\* reschedule times remain and it is an incomplete backup of a level other
\* than Base under RescheduleIncompleteJobs, or a backup that neither
\* terminated OK nor was canceled under RescheduleOnError; so never a job
\* that terminated OK, a canceled job, or a job that is no backup.
C19_RescheduleCandidate ==
  probe.resched # "untested" =>
     /\ (probe.resched = "yes") <=> SpecCandidate(probe)
     /\ probe.status \in {"TerminatedOk", "Canceled"} => probe.resched = "no"
     /\ probe.type # "Backup" => probe.resched = "no"

\* An incomplete backup is rescheduled under RescheduleIncompleteJobs alone,
\* with one reschedule time left.
C19_Witness ==
  /\ probe.resched = "yes"
  /\ probe.incomplete /\ ~probe.onerror
  /\ probe.status = "Incomplete" /\ probe.level = "Incremental"
  /\ probe.times = MaxReschedule /\ probe.count = MaxReschedule - 1

\* Worker w leaves the given point of RescheduleJob in this step.
Leaves(w, pc) == ~crashed /\ ~crashed' /\ wk[w].pc = pc /\ wk'[w].pc # pc

\* C20: after a reschedule, in place or by a clone, RescheduleJob returns
\* true and the worker does not go on to free the jcr.
C20_RequeuedInBothModes ==
  [][\A w \in Workers :
       (Leaves(w, "resched_lock") \/ Leaves(w, "clone_lock"))
       => wk'[w].pc # "free"]_vars

\* C20 as the code has it: RescheduleJob returns true only after a requeue
\* in place, where it released the jcr itself; after it ran a clone it
\* returns false and the worker frees the old jcr.
C20_RequeuedInPlaceOnly ==
  [][\A w \in Workers :
       /\ Leaves(w, "resched_lock") => wk'[w].pc = "drain"
       /\ Leaves(w, "clone_lock")
          => /\ wk'[w].pc = "free"
             /\ wk'[w].jcr = wk[w].jcr
             /\ jcr'[wk[w].jcr] = jcr[wk[w].jcr]
       /\ (Leaves(w, "free") /\ Live(jcr, wk[w].jcr))
          => \/ jcr'[wk[w].jcr].alloc = "freed"
             \/ jcr'[wk[w].jcr].UseCount = jcr[wk[w].jcr].UseCount - 1
     ]_vars

\* A worker that ran a clone is about to free the old jcr.
C20_Witness ==
  /\ ~crashed
  /\ \E w \in Workers : \E n \in Jobs :
       /\ wk[w].pc = "free" /\ Live(jcr, wk[w].jcr)
       /\ jcr[wk[w].jcr].JobBytes > 0
       /\ n # wk[w].jcr /\ jcr[n].alloc # "unused"
       /\ jcr[n].row = jcr[wk[w].jcr].row

\* Nothing is handed to the queue in this step.
NothingSubmitted ==
  waiting' = waiting /\ ready' = ready /\ waiter' = waiter

\* Job j is handed to the queue in this step: it joins the waiter or the
\* waiting list, and the queue takes a reference on it.
Submitted(j) ==
  /\ \/ j \in waiter' \ waiter
     \/ Count(waiting', j) > Count(waiting, j)
  /\ jcr'[j].UseCount = jcr[j].UseCount + 1

\* C21: a reschedule the duplicate-job check approves submits the same jcr
\* again when the failed run wrote no bytes, and otherwise creates a new jcr
\* with the reschedule count and the scheduled time of the old one, submits
\* it through RunJob and frees the old one; a denied reschedule submits
\* nothing.
C21_RescheduleDisposition ==
  [][\A w \in Workers :
       LET j == wk[w].jcr
           n == wk'[w].njcr
       IN
       /\ (Leaves(w, "engine") /\ wk'[w].pc = "resched_add")
          => /\ jcr'[j].JobBytes = 0 /\ wk'[w].jcr = j
             /\ Live(jcr', j) /\ jcr'[j].row = jcr[j].row
             /\ NothingSubmitted
       /\ (Leaves(w, "resched_add") /\ valid /\ Live(jcr, j))
          => Submitted(j) /\ wk'[w].pc = "resched_lock"
       /\ (Leaves(w, "engine") /\ wk'[w].pc = "clone_run")
          => /\ jcr'[j].JobBytes # 0 /\ wk'[w].jcr = j
             /\ n \in Jobs /\ n # j
             /\ jcr[n].alloc = "unused" /\ Live(jcr', n)
             /\ jcr'[n].row = jcr'[j].row
             /\ jcr'[n].reschedule_count = jcr'[j].reschedule_count
             /\ jcr'[n].due = jcr'[j].due
             /\ NothingSubmitted
       /\ (Leaves(w, "clone_run") /\ valid /\ Live(jcr, wk[w].njcr))
          => LET c == wk[w].njcr IN
             /\ \/ c \in waiter' \ waiter
                \/ Count(waiting', c) > Count(waiting, c)
             /\ wk'[w].pc = "clone_lock" /\ wk'[w].jcr = j
       /\ Leaves(w, "clone_lock") => wk'[w].pc = "free" /\ wk'[w].jcr = j
       /\ (Leaves(w, "engine") /\ wk'[w].pc = "free") => NothingSubmitted
       /\ (Leaves(w, "free") /\ Live(jcr, j))
          => /\ NothingSubmitted
             /\ \/ jcr'[j].alloc = "freed"
                \/ jcr'[j].UseCount = jcr[j].UseCount - 1
     ]_vars

\* Both approved outcomes have happened: the clone of a freed job is queued
\* with a reschedule count, and a job requeued in place is queued with its
\* own.
C21_Witness ==
  /\ ~crashed
  /\ \E j \in Jobs : \E n \in Jobs \ {j} :
       /\ jcr[j].alloc = "freed"
       /\ Live(jcr, n) /\ jcr[n].row = j
       /\ jcr[n].reschedule_count >= 1
       /\ n \in OnList(waiting) \cup waiter
  /\ \E k \in Jobs :
       /\ Live(jcr, k) /\ jcr[k].row = k
       /\ jcr[k].reschedule_count >= 1
       /\ k \in OnList(waiting) \cup waiter

\* Job j is a Migrate, Copy or Consolidate job.
NoClientJob(f, j) == JobTypeOf(f, j) \in {"Migrate", "Copy", "Consolidate"}

\* C22: admitting and releasing a Migrate, Copy or Consolidate job leaves
\* every client counter alone and, when the job is a control job
\* (MigrateJobId = 0), every storage counter too; its admission adds one to
\* the counter of its job definition and its release takes one off.
C22_ControlJobsUncounted ==
  [][\A j \in Jobs :
       (Live(jcr, j) /\ NoClientJob(jcr, j) /\ jcr'[j] # jcr[j])
       => /\ \A c \in Clients : ncj'[c] = ncj[c]
          /\ MigrateJobId(jcr, j) = 0
             => \A s \in Stores : ncj'[s] = ncj[s] /\ nrj'[s] = nrj[s]
          /\ (~jcr[j].acquired /\ jcr'[j].acquired)
             => ncj'[JobDefOf(jcr, j)] = ncj[JobDefOf(jcr, j)] + 1
          /\ (jcr[j].acquired /\ ~jcr'[j].acquired)
             => ncj'[JobDefOf(jcr, j)] = ncj[JobDefOf(jcr, j)] - 1
          /\ \A d \in JobDefs \ {JobDefOf(jcr, j)} : ncj'[d] = ncj[d]
     ]_vars

\* A control job and a working copy job are admitted together: the job
\* definitions count both, the storages count the copy job alone, no client
\* counts either, and a second control job was refused by its job definition.
C22_Witness ==
  /\ cfg = MigrationScenario
  /\ \E j \in Jobs : \E k \in Jobs : \E l \in Jobs :
       /\ jcr[j].acquired /\ MigrateJobId(jcr, j) = 0
       /\ jcr[k].acquired /\ MigrateJobId(jcr, k) # 0
       /\ Live(jcr, l) /\ jcr[l].JobStatus = "WaitJobRes"
       /\ ncj[JobDefOf(jcr, j)] = 1 /\ ncj[JobDefOf(jcr, k)] = 1
       /\ ncj[WStoreOf(jcr, k)] = 1 /\ ncj[RStoreOf(jcr, k)] = 1
       /\ nrj[RStoreOf(jcr, k)] = 1
  /\ \A c \in Clients : ncj[c] = 0

\* C23: while thread creation succeeds, a valid queue with a job on waiting
\* or ready and its mutex free has at least one worker: no worker leaves
\* through the idle test or the failure of its timed wait when that would
\* leave a job with nobody to serve it.
C23_WorkerWhileWork ==
  [][(/\ ~crashed' /\ qmutex' = MutexFree /\ valid'
      /\ (waiting' # <<>> \/ ready' # <<>>)
      /\ \/ faults' = 0
         \/ /\ faults = 0
            /\ \E w \in Workers : wk[w].pc = "timedwait" /\ wk'[w].pc = "dead")
     => num_workers' >= 1]_vars

\* Job j, due at once, is handed to JobqAdd in this step, something fails
\* and the job joins no list: the allocation of JobqAdd failed.
SubmitFailsAlloc(j) ==
  /\ ~crashed /\ ~crashed' /\ valid
  /\ Deferrals(j) = {TRUE}
  /\ jcr[j].alloc = "unused" /\ jcr'[j].alloc # "unused"
  /\ faults' = faults + 1
  /\ Len(waiting') = Len(waiting) /\ Len(ready') = Len(ready)

\* C24: when its allocation fails, JobqAdd has released the reference it
\* took, has modified no list and has released the queue mutex.
C24_EnomemLeavesQueueUsable ==
  [][\A j \in Jobs :
       SubmitFailsAlloc(j)
       => /\ jcr'[j].alloc = "freed"
          /\ waiting' = waiting /\ ready' = ready /\ running' = running
          /\ num_workers' = num_workers
          /\ qmutex' = MutexFree
     ]_vars

\* Job j was accepted by JobqAdd and no engine has finished it.
Accepted(j) ==
  /\ ~crashed /\ jcr[j].alloc = "live"
  /\ jcr[j].JobStatus \notin TermStatus

\* Job j is in the hands of the engine.
InEngine(j) == \E w \in Workers : wk[w].pc = "engine" /\ wk[w].jcr = j

\* C25: on a queue that is not destroyed, while no thread creation,
\* allocation or wait fails, every job JobqAdd accepted is handed to the
\* engine in the end.
C25_AcceptedJobsRun ==
  \A j \in Jobs : Accepted(j) ~> (InEngine(j) \/ crashed \/ faults > 0)

\* C26: at every point with the queue mutex free the counter of every
\* resource equals the number of permits on it held by the jobs on ready or
\* running that hold their permits, so that it is 0 when both lists are
\* empty; and no counter is negative.
C26_NoPermitLeak ==
  (~crashed /\ qmutex = MutexFree) =>
     /\ \A res \in Resources :
          /\ ncj[res] = Held(OnList(ready) \cup OnList(running), res)
          /\ ncj[res] >= 0
     /\ \A s \in Stores : nrj[s] >= 0

\* The waiter or a list refers to job j.
Queued(j, wt, w, r, u) == j \in wt \cup OnList(w) \cup OnList(r) \cup OnList(u)

\* C27: after the engine returned, the reference the queue took on the job
\* is released once: by RescheduleJob when it requeued the job in place (the
\* worker then frees nothing), by the worker otherwise (no reschedule,
\* denial, clone); and the memory of a job requeued in place is not released
\* while the waiter or a list refers to it.
C27_ReferenceReleasedOnce ==
  [][/\ \A w \in Workers :
          LET j == wk[w].jcr IN
          /\ (Leaves(w, "engine") /\ Live(jcr, j))
             => /\ jcr'[j].UseCount = jcr[j].UseCount
                /\ wk'[w].pc \in {"free", "resched_add", "clone_run"}
          /\ (Leaves(w, "resched_lock") /\ Live(jcr, j))
             => /\ wk'[w].pc = "drain"
                /\ \/ jcr'[j].alloc = "freed"
                   \/ jcr'[j].UseCount = jcr[j].UseCount - 1
          /\ (Leaves(w, "clone_lock") /\ Live(jcr, j))
             => wk'[w].pc = "free" /\ jcr'[j] = jcr[j]
          /\ (Leaves(w, "free") /\ Live(jcr, j))
             => /\ wk'[w].pc = "drain"
                /\ \/ jcr'[j].alloc = "freed"
                   \/ jcr'[j].UseCount = jcr[j].UseCount - 1
     /\ \A j \in Jobs :
          (/\ ~crashed'
           /\ jcr'[j].row = j /\ jcr'[j].reschedule_count >= 1
           /\ Queued(j, waiter', waiting', ready', running'))
          => jcr'[j].alloc = "live"
    ]_vars

====
